---- MODULE Spec2Model ----
(***************************************************************************)
(* A model of imdb_analysis_complete.py: the IMDbAnalyzer pipeline         *)
(* (load_data, the six aggregations, generate_insights,                    *)
(* create_visualizations) run by run_complete_analysis over one CSV table. *)
(*                                                                         *)
(* Representation.                                                         *)
(*   text cell      a sequence of one-character strings; the absent cell   *)
(*                  (NaN, and '' after fillna('')) is the empty sequence,  *)
(*                  read_csv never yields an empty string                  *)
(*   optional value <<>> for None / NaN / NaT, <<v>> for a present value   *)
(*   mean, share    an exact fraction [nan, num, den]                      *)
(*   rounded value  an integer number of hundredths (DataFrame.round(2))   *)
(*   IMDb rating    an integer number of tenths                            *)
(*   date           <<year, month, day>>                                   *)
(***************************************************************************)
EXTENDS Integers, Sequences, FiniteSets, TLC

VARIABLES csv, pc, error, executed, df, yearly_stats, director_analysis,
          basic_stats, yearly_data, director_data, genre_data,
          rating_patterns_local, age_data, insights, alignment, image, result

vars == <<csv, pc, error, executed, df, yearly_stats, director_analysis,
          basic_stats, yearly_data, director_data, genre_data,
          rating_patterns_local, age_data, insights, alignment, image, result>>

----------------------------------------------------------------------------
(* Program constants *)

\* Counter.most_common(15)
TopN == 15
\* "Only directors with 5+ works"
MinWorks == 5
\* generous_threshold = 7
generous_threshold == 7
\* datetime.now().year
NowYear == 2026

(* Bounds of the model *)

\* the longest run of equal records in a generated table
MaxRep == 12
\* the longest table of the exhaustively enumerated small tables
MaxRows == 2

----------------------------------------------------------------------------
(* Generic helpers *)

None == <<>>
Some(v) == <<v>>
IsNone(o) == Len(o) = 0
Get(o) == o[1]

Range(s) == {s[i] : i \in 1..Len(s)}

RECURSIVE Rep(_, _)
Rep(x, n) == IF n <= 0 THEN <<>> ELSE <<x>> \o Rep(x, n - 1)

RECURSIVE Concat(_)
Concat(ss) == IF Len(ss) = 0 THEN <<>> ELSE Head(ss) \o Concat(Tail(ss))

RECURSIVE SumSeq(_)
SumSeq(s) == IF Len(s) = 0 THEN 0 ELSE Head(s) + SumSeq(Tail(s))

\* a float that is a quotient of two integers, kept exact; nan for 0/0 of an
\* empty sample
Frac(n, d) == [nan |-> FALSE, num |-> n, den |-> d]
NaN == [nan |-> TRUE, num |-> 0, den |-> 1]

\* a / b < c / d for positive denominators
FracLess(a, b) == (~a.nan) /\ (~b.nan) /\ a.num * b.den < b.num * a.den
FracEq(a, b) == (a.nan /\ b.nan) \/ ((~a.nan) /\ (~b.nan) /\ a.num * b.den = b.num * a.den)

----------------------------------------------------------------------------
(* Text: str.split(','), str.strip(), Series.str.contains *)

Comma == ","
Space == " "

RECURSIVE Split(_)
Split(s) ==
    IF \A i \in 1..Len(s) : s[i] # Comma THEN <<s>>
    ELSE LET i == CHOOSE k \in 1..Len(s) :
                      s[k] = Comma /\ \A j \in 1..(k - 1) : s[j] # Comma
         IN <<SubSeq(s, 1, i - 1)>> \o Split(SubSeq(s, i + 1, Len(s)))

RECURSIVE LStrip(_)
LStrip(s) == IF Len(s) > 0 /\ Head(s) = Space THEN LStrip(Tail(s)) ELSE s

RECURSIVE RStrip(_)
RStrip(s) ==
    IF Len(s) > 0 /\ s[Len(s)] = Space THEN RStrip(SubSeq(s, 1, Len(s) - 1)) ELSE s

Strip(s) == RStrip(LStrip(s))

\* [d.strip() for d in str(directors).split(',')]
SplitStrip(s) == LET parts == Split(s) IN [i \in 1..Len(parts) |-> Strip(parts[i])]

\* one pattern character against one text character: str.contains takes its
\* argument as a regular expression, where '.' stands for any character
CharMatch(p, c) == p = "." \/ p = c

\* Series.str.contains(pat, na=False) on one cell: the pattern occurs somewhere
\* in the raw cell; an absent cell gives False
StrContains(cell, pat) ==
    /\ Len(cell) > 0
    /\ \E i \in 0..(Len(cell) - Len(pat)) :
           \A j \in 1..Len(pat) : CharMatch(pat[j], cell[i + j])

----------------------------------------------------------------------------
(* The table: column names, rows, column access *)

cTitleType == "Title Type"
cYourRating == "Your Rating"
cIMDbRating == "IMDb Rating"
cYear == "Year"
cDateRated == "Date Rated"
cReleaseDate == "Release Date"
cGenres == "Genres"
cDirectors == "Directors"
cRatingYear == "Rating Year"
cContentAge == "Content_Age"
cAgeGroup == "Age_Group"

\* the columns the script reads from the export
Columns == {cTitleType, cYourRating, cIMDbRating, cYear, cDateRated,
            cReleaseDate, cGenres, cDirectors}

\* df[c] where column c does not exist raises KeyError
HasCol(d, c) == c \in d.columns

ColVals(d, c) == [i \in 1..Len(d.rows) |-> d.rows[i][c]]

\* the values of a column that are present (pandas skips NaN in sums, means,
\* counts and correlations)
Present(vals) ==
    LET keep == SelectSeq(vals, LAMBDA o : ~IsNone(o))
    IN [i \in 1..Len(keep) |-> Get(keep[i])]

\* len(df[df[c] == v]), len(df[df[c] >= v]), ...
CountWhere(d, Test(_)) == Len(SelectSeq(d.rows, Test))

\* a step's outcome: the exception it raises, or its value
Raise(e) == [err |-> e, val |-> None]
Return(v) == [err |-> "none", val |-> Some(v)]

----------------------------------------------------------------------------
(* Arithmetic on samples: mean, sample variance, rounding, correlation *)

\* Series.mean(): NaN for an empty sample
Mean(xs) == IF Len(xs) = 0 THEN NaN ELSE Frac(SumSeq(xs), Len(xs))

\* Series.std() squared (ddof = 1): NaN for fewer than two values
Variance(xs) ==
    LET n == Len(xs)
        s == SumSeq(xs)
        ss == SumSeq([i \in 1..n |-> xs[i] * xs[i]])
    IN IF n < 2 THEN NaN ELSE Frac(n * ss - s * s, n * (n - 1))

\* round(2) of num/den to hundredths, ties to even as numpy rounds
RoundHundredths(f) ==
    IF f.nan THEN None
    ELSE LET t == 100 * f.num
             k == t \div f.den
             r == t % f.den
         IN Some(IF 2 * r < f.den THEN k
                 ELSE IF 2 * r > f.den THEN k + 1
                 ELSE IF k % 2 = 0 THEN k ELSE k + 1)

\* round(2) of the square root of num/den, to hundredths
RoundSqrtHundredths(f) ==
    IF f.nan THEN None
    ELSE Some(CHOOSE r \in 0..1000 :
                  /\ (r = 0 \/ (2 * r - 1) * (2 * r - 1) * f.den <= 40000 * f.num)
                  /\ 40000 * f.num < (2 * r + 1) * (2 * r + 1) * f.den)

\* a / b * 100 on Python numbers: ZeroDivisionError when b is 0
Percentage(a, b) ==
    IF b = 0 THEN Raise("ZeroDivisionError") ELSE Return(Frac(100 * a, b))

\* (a / b) * 100 if b > 0 else 0
GuardedPercentage(a, b) == IF b > 0 THEN Frac(100 * a, b) ELSE Frac(0, 1)

\* Series.corr (Pearson) of the user ratings with an optional column: only the
\* rows where both are present enter the sample; the result is r = cov /
\* sqrt(vx * vy), NaN when the sample has fewer than two rows or one side has
\* no variance
Corr(xs, ys) ==
    LET idx == SelectSeq([i \in 1..Len(xs) |-> i], LAMBDA i : ~IsNone(ys[i]))
        n == Len(idx)
        x == [k \in 1..n |-> xs[idx[k]]]
        y == [k \in 1..n |-> Get(ys[idx[k]])]
        sx == SumSeq(x)
        sy == SumSeq(y)
        vx == n * SumSeq([k \in 1..n |-> x[k] * x[k]]) - sx * sx
        vy == n * SumSeq([k \in 1..n |-> y[k] * y[k]]) - sy * sy
        cov == n * SumSeq([k \in 1..n |-> x[k] * y[k]]) - sx * sy
    IN IF n < 2 \/ vx = 0 \/ vy = 0
       THEN [nan |-> TRUE, n |-> n, cov |-> 0, vx |-> 0, vy |-> 0]
       ELSE [nan |-> FALSE, n |-> n, cov |-> cov, vx |-> vx, vy |-> vy]

\* abs(r) > p / 10 for a correlation; every comparison with NaN is False
AbsCorrAbove(c, p) == (~c.nan) /\ 100 * c.cov * c.cov > p * p * c.vx * c.vy

\* Series.mode().iloc[0]: the smallest of the most frequent values
Mode(xs) ==
    LET freq(v) == Len(SelectSeq(xs, LAMBDA u : u = v))
        best == {v \in Range(xs) : \A u \in Range(xs) : freq(u) <= freq(v)}
    IN CHOOSE v \in best : \A u \in best : v <= u

\* sorted(set of integers)
RECURSIVE SortedSeq(_)
SortedSeq(S) ==
    IF S = {} THEN <<>>
    ELSE LET m == CHOOSE v \in S : \A u \in S : v <= u
         IN <<m>> \o SortedSeq(S \ {m})

\* dates compare as (year, month, day)
DateLess(a, b) ==
    \/ a[1] < b[1]
    \/ a[1] = b[1] /\ a[2] < b[2]
    \/ a[1] = b[1] /\ a[2] = b[2] /\ a[3] < b[3]

\* Series.max() of dates: NaT for no dates
MaxDate(ds) ==
    IF Len(ds) = 0 THEN None
    ELSE Some(CHOOSE d \in Range(ds) : \A e \in Range(ds) : ~DateLess(d, e))

\* Timestamp.strftime('%Y-%m-%d'): the year, then two digits each for month
\* and day
StrfTime(d) ==
    <<d[1], "-", d[2] \div 10, d[2] % 10, "-", d[3] \div 10, d[3] % 10>>

----------------------------------------------------------------------------
(* load_data *)

\* pd.to_datetime on one cell of text: the date it spells, when it spells one
ParsesAsDate(cell) == cell.valid
ToDatetime(cell) == cell.ymd

\* a variant that tolerates bad rating dates, as errors='coerce' would
RatingDateCoerced(file) == FALSE

\* pd.to_datetime(self.df['Date Rated']) has no errors='coerce': one cell
\* that spells no date raises
RatingDateFails(file) ==
    \E i \in 1..Len(file.rows) : ~ParsesAsDate(file.rows[i][cDateRated])

\* the frame with column c rewritten cell by cell, or added
WithColumn(d, c, Cell(_)) ==
    [columns |-> d.columns \cup {c},
     rows |-> [i \in 1..Len(d.rows) |->
                 [k \in d.columns \cup {c} |->
                    IF k = c THEN Cell(d.rows[i]) ELSE d.rows[i][k]]]]

\* load_data: read the file, parse the two date columns, derive the rating
\* year and the content age. `set` tells whether self.df was assigned and `df`
\* what it holds when the method ends or raises
LoadData(file) ==
    LET raw == [columns |-> file.columns,
                rows |-> [i \in 1..Len(file.rows) |->
                            [c \in file.columns |-> file.rows[i][c]]]]
        d1 == WithColumn(raw, cDateRated, LAMBDA r : ToDatetime(r[cDateRated]))
        d2 == WithColumn(d1, cReleaseDate,
                         LAMBDA r : IF ParsesAsDate(r[cReleaseDate])
                                    THEN Some(ToDatetime(r[cReleaseDate])) ELSE None)
        d3 == WithColumn(d2, cRatingYear, LAMBDA r : r[cDateRated][1])
        d4 == WithColumn(d3, cContentAge,
                         LAMBDA r : IF IsNone(r[cYear]) THEN None
                                    ELSE Some(NowYear - Get(r[cYear])))
    IN IF ~file.exists THEN [err |-> "FileNotFoundError", set |-> FALSE, df |-> raw]
       ELSE IF cDateRated \notin file.columns
       THEN [err |-> "KeyError", set |-> TRUE, df |-> raw]
       ELSE IF RatingDateFails(file)
       THEN [err |-> "ValueError", set |-> TRUE, df |-> raw]
       ELSE IF cReleaseDate \notin file.columns
       THEN [err |-> "KeyError", set |-> TRUE, df |-> d1]
       ELSE IF cYear \notin file.columns
       THEN [err |-> "KeyError", set |-> TRUE, df |-> d3]
       ELSE [err |-> "none", set |-> TRUE, df |-> d4]

----------------------------------------------------------------------------
(* basic_statistics *)

\* the three title types basic_statistics counts
CountedTypes == <<"Movie", "TV Series", "TV Episode">>

\* a variant that takes every 'TV ...' title for a TV series
TypeCountByPrefix(d, t) ==
    CountWhere(d, LAMBDA r : r[cTitleType] = t
                             \/ (t = "TV Series" /\ r[cTitleType] = "TV Episode"))

\* len(self.df[self.df['Title Type'] == t])
TypeCount(d, t) == CountWhere(d, LAMBDA r : r[cTitleType] = t)

\* basic_statistics: the stats dictionary, then the printed shares
BasicStatistics(d) ==
    IF ~HasCol(d, cTitleType) THEN Raise("KeyError")
    ELSE IF ~HasCol(d, cYourRating) THEN Raise("KeyError")
    ELSE IF Len(d.rows) = 0 THEN Raise("IndexError")
    ELSE IF ~HasCol(d, cIMDbRating) THEN Raise("KeyError")
    ELSE LET stats ==
                 [total_entries |-> Len(d.rows),
                  movies |-> TypeCount(d, CountedTypes[1]),
                  tv_series |-> TypeCount(d, CountedTypes[2]),
                  tv_episodes |-> TypeCount(d, CountedTypes[3]),
                  avg_rating |-> Mean(ColVals(d, cYourRating)),
                  most_common_rating |-> Mode(ColVals(d, cYourRating)),
                  imdb_correlation |->
                      Corr(ColVals(d, cYourRating), ColVals(d, cIMDbRating))]
             shares == <<Percentage(stats.movies, stats.total_entries),
                         Percentage(stats.tv_series, stats.total_entries),
                         Percentage(stats.tv_episodes, stats.total_entries)>>
         IN IF \E i \in 1..3 : shares[i].err # "none" THEN Raise("ZeroDivisionError")
            ELSE Return(stats)

----------------------------------------------------------------------------
(* yearly_evolution *)

\* the rows of one rating year, in table order
YearRows(d, y) == SelectSeq(d.rows, LAMBDA r : r[cRatingYear] = y)

\* sorted(self.df['Rating Year'].unique()), also the order of groupby's rows
RatingYears(d) == SortedSeq({d.rows[i][cRatingYear] : i \in 1..Len(d.rows)})

\* the mean of an optional column over some rows, scaled by 1/scale
MeanOfPresent(rows, c, scale) ==
    LET xs == Present([i \in 1..Len(rows) |-> rows[i][c]])
    IN IF Len(xs) = 0 THEN NaN ELSE Frac(SumSeq(xs), scale * Len(xs))

\* groupby('Rating Year').agg(...).round(2): one row per rating year, by year
\* ascending, every aggregate rounded to hundredths
YearlyEvolution(d) ==
    IF ~HasCol(d, cYourRating) \/ ~HasCol(d, cIMDbRating) THEN Raise("KeyError")
    ELSE LET years == RatingYears(d)
         IN Return([k \in 1..Len(years) |->
                LET g == YearRows(d, years[k])
                    ratings == [i \in 1..Len(g) |-> g[i][cYourRating]]
                IN [Year |-> years[k],
                    Count |-> Len(g),
                    Avg_Your_Rating |-> RoundHundredths(Mean(ratings)),
                    Std_Your_Rating |-> RoundSqrtHundredths(Variance(ratings)),
                    Avg_IMDb_Rating |-> RoundHundredths(MeanOfPresent(g, cIMDbRating, 10)),
                    Avg_Content_Year |-> RoundHundredths(MeanOfPresent(g, cYear, 1)),
                    Avg_Content_Age |-> RoundHundredths(MeanOfPresent(g, cContentAge, 1))]])

----------------------------------------------------------------------------
(* Token counting: Counter and most_common *)

\* the distinct elements of a list in order of first occurrence (the key order
\* of a Counter)
RECURSIVE Dedup(_)
Dedup(s) ==
    IF Len(s) = 0 THEN <<>>
    ELSE <<Head(s)>> \o Dedup(SelectSeq(Tail(s), LAMBDA u : u # Head(s)))

\* Counter(tokens): (token, count) in order of first occurrence
Counter(tokens) ==
    LET keys == Dedup(tokens)
    IN [i \in 1..Len(keys) |->
          [key |-> keys[i],
           count |-> Len(SelectSeq(tokens, LAMBDA u : u = keys[i]))]]

\* sorted(items, key=count, reverse=True): stable, equal counts keep the order
\* of first occurrence
RECURSIVE SortByCountDesc(_)
SortByCountDesc(items) ==
    IF Len(items) = 0 THEN <<>>
    ELSE LET i == CHOOSE k \in 1..Len(items) :
                      /\ \A j \in 1..Len(items) : items[j].count <= items[k].count
                      /\ \A j \in 1..(k - 1) : items[j].count < items[k].count
         IN <<items[i]>> \o
            SortByCountDesc(SubSeq(items, 1, i - 1) \o SubSeq(items, i + 1, Len(items)))

\* Counter.most_common(n)
MostCommon(items, n) ==
    LET sorted == SortByCountDesc(items)
    IN SubSeq(sorted, 1, IF Len(sorted) < n THEN Len(sorted) ELSE n)

\* the loop that fills director_list / genre_list: every non-empty cell is
\* split on commas and its pieces stripped
TokenList(d, c) ==
    Concat([i \in 1..Len(d.rows) |->
              IF Len(d.rows[i][c]) > 0 THEN SplitStrip(d.rows[i][c]) ELSE <<>>])

----------------------------------------------------------------------------
(* analyze_directors *)

\* self.df[self.df['Directors'].str.contains(director, na=False)]
DirectorWorks(d, director) ==
    SelectSeq(d.rows, LAMBDA r : StrContains(r[cDirectors], director))

\* the dictionary appended for one director; Std_Rating holds the square of
\* the sample standard deviation
DirectorEntry(d, item) ==
    LET works == DirectorWorks(d, item.key)
        ratings == [i \in 1..Len(works) |-> works[i][cYourRating]]
        latest == MaxDate([i \in 1..Len(works) |-> works[i][cDateRated]])
    IN [Director |-> item.key,
        Count |-> item.count,
        Avg_Rating |-> Mean(ratings),
        Std_Rating |-> Variance(ratings),
        Latest_Work |-> IF IsNone(latest) THEN None ELSE Some(StrfTime(Get(latest)))]

\* a variant that asks for more than 5 works
QualifiesAboveFive(item) == Len(item.key) > 0 /\ item.count > MinWorks

\* "if director and count >= 5"
Qualifies(item) == Len(item.key) > 0 /\ item.count >= MinWorks

\* the candidates of the detailed pass: the TopN most frequent tokens
TopDirectors(d) == MostCommon(Counter(TokenList(d, cDirectors)), TopN)

\* analyze_directors: `set` tells whether self.director_analysis was assigned,
\* `analysis` what it then holds, `val` the returned frame
AnalyzeDirectors(d) ==
    IF ~HasCol(d, cDirectors)
    THEN [err |-> "KeyError", set |-> FALSE, analysis |-> <<>>, val |-> None]
    ELSE LET picked == SelectSeq(TopDirectors(d), Qualifies)
             entries == [i \in 1..Len(picked) |-> DirectorEntry(d, picked[i])]
             \* NaT.strftime raises ValueError: the list keeps what was
             \* appended before
             bad == {i \in 1..Len(entries) : IsNone(entries[i].Latest_Work)}
             done == IF bad = {} THEN entries
                     ELSE SubSeq(entries, 1, (CHOOSE i \in bad : \A j \in bad : i <= j) - 1)
         IN IF bad # {}
            THEN [err |-> "ValueError", set |-> TRUE, analysis |-> done, val |-> None]
            \* DataFrame([]) has no column 'Avg_Rating' for sort_values
            ELSE IF Len(done) = 0
            THEN [err |-> "KeyError", set |-> TRUE, analysis |-> done, val |-> None]
            ELSE [err |-> "none", set |-> TRUE, analysis |-> done, val |-> Some(done)]

----------------------------------------------------------------------------
(* analyze_genres *)

\* analyze_genres: the TopN most frequent genre tokens; each printed with its
\* share of the table
AnalyzeGenres(d) ==
    IF ~HasCol(d, cGenres) THEN Raise("KeyError")
    ELSE LET top_genres == MostCommon(Counter(TokenList(d, cGenres)), TopN)
         IN IF \E i \in 1..Len(top_genres) :
                   /\ Len(top_genres[i].key) > 0
                   /\ Percentage(top_genres[i].count, Len(d.rows)).err # "none"
            THEN Raise("ZeroDivisionError")
            ELSE Return(top_genres)

----------------------------------------------------------------------------
(* rating_patterns *)

\* self.df['Your Rating'].value_counts().sort_index()
RatingDist(d) ==
    LET values == SortedSeq({d.rows[i][cYourRating] : i \in 1..Len(d.rows)})
    IN [k \in 1..Len(values) |->
          [rating |-> values[k],
           count |-> CountWhere(d, LAMBDA r : r[cYourRating] = values[k])]]

\* rating_patterns: the histogram, the share of each value, the high and low
\* bands and their shares
RatingPatterns(d) ==
    IF ~HasCol(d, cYourRating) THEN Raise("KeyError")
    ELSE LET rating_dist == RatingDist(d)
             high_ratings == CountWhere(d, LAMBDA r : r[cYourRating] >= 8)
             low_ratings == CountWhere(d, LAMBDA r : r[cYourRating] <= 5)
         IN IF \/ \E k \in 1..Len(rating_dist) :
                      Percentage(rating_dist[k].count, Len(d.rows)).err # "none"
               \/ Percentage(high_ratings, Len(d.rows)).err # "none"
               \/ Percentage(low_ratings, Len(d.rows)).err # "none"
            THEN Raise("ZeroDivisionError")
            ELSE Return(rating_dist)

----------------------------------------------------------------------------
(* content_age_analysis *)

\* bins=[-1, 5, 15, 30, 50, 100]
AgeBins == <<-1, 5, 15, 30, 50, 100>>

AgeLabels == <<"Very Recent (0-5y)", "Recent (6-15y)", "Older (16-30y)",
               "Classic (31-50y)", "Very Classic (50y+)">>

\* pd.cut on one value: the label of the interval (bins[k], bins[k+1]] that
\* holds it; absent for an absent value and for a value in no interval
Cut(age) ==
    IF IsNone(age) THEN None
    ELSE LET hit == {k \in 1..Len(AgeLabels) :
                         AgeBins[k] < Get(age) /\ Get(age) <= AgeBins[k + 1]}
         IN IF hit = {} THEN None ELSE Some(AgeLabels[CHOOSE k \in hit : TRUE])

\* self.df['Age_Group'] = pd.cut(...)
WithAgeGroup(d) ==
    [columns |-> d.columns \cup {cAgeGroup},
     rows |-> [i \in 1..Len(d.rows) |->
                 [c \in d.columns \cup {cAgeGroup} |->
                    IF c = cAgeGroup THEN Cut(d.rows[i][cContentAge])
                    ELSE d.rows[i][c]]]]

\* groupby('Age_Group')['Your Rating'].agg(['count', 'mean']).round(2): one
\* row per label, in label order
AgeStats(d) ==
    [k \in 1..Len(AgeLabels) |->
        LET g == SelectSeq(d.rows, LAMBDA r : r[cAgeGroup] = Some(AgeLabels[k]))
        IN [Age_Group |-> AgeLabels[k],
            count |-> Len(g),
            mean |-> RoundHundredths(Mean([i \in 1..Len(g) |-> g[i][cYourRating]]))]]

\* content_age_analysis: `df` is the table with its new column
ContentAgeAnalysis(d) ==
    LET cut == WithAgeGroup(d)
    IN IF ~HasCol(d, cYourRating)
       THEN [err |-> "KeyError", df |-> cut, val |-> None]
       ELSE [err |-> "none", df |-> cut, val |-> Some(AgeStats(cut))]

----------------------------------------------------------------------------
(* generate_insights *)

\* Series.idxmax() over the yearly rollup: the index (year) of the first row,
\* in row order, that holds the maximum of the column
IdxMaxCount(ys) ==
    LET k == CHOOSE i \in 1..Len(ys) :
                 /\ \A j \in 1..Len(ys) : ys[j].Count <= ys[i].Count
                 /\ \A j \in 1..(i - 1) : ys[j].Count < ys[i].Count
    IN ys[k].Year

IdxMaxAvgRating(ys) ==
    LET v(i) == Get(ys[i].Avg_Your_Rating)
        k == CHOOSE i \in 1..Len(ys) :
                 /\ \A j \in 1..Len(ys) : v(j) <= v(i)
                 /\ \A j \in 1..(i - 1) : v(j) < v(i)
    IN ys[k].Year

\* 'Strong' if abs(r) > 0.7 else 'Moderate' if abs(r) > 0.4 else 'Weak'
AlignmentLabel(c) ==
    IF AbsCorrAbove(c, 7) THEN "Strong"
    ELSE IF AbsCorrAbove(c, 4) THEN "Moderate"
    ELSE "Weak"

\* the rating style from the share of ratings at or above the threshold
Style(pct) ==
    IF pct.num > 60 * pct.den THEN "Very generous"
    ELSE IF pct.num > 40 * pct.den THEN "Moderately generous"
    ELSE "Selective"

\* generate_insights: `label` is the alignment it prints, when it gets there
GenerateInsights(d, ys) ==
    LET stats == BasicStatistics(d)
        generous == Percentage(CountWhere(d, LAMBDA r : r[cYourRating] >= generous_threshold),
                               Len(d.rows))
    IN IF stats.err # "none" THEN [err |-> stats.err, label |-> None, val |-> None]
       ELSE IF generous.err # "none"
       THEN [err |-> generous.err, label |-> None, val |-> None]
       ELSE LET label == Some(AlignmentLabel(Get(stats.val).imdb_correlation))
            IN IF IsNone(ys) THEN [err |-> "TypeError", label |-> label, val |-> None]
               ELSE IF Len(Get(ys)) = 0
               THEN [err |-> "ValueError", label |-> label, val |-> None]
               ELSE [err |-> "none", label |-> label,
                     val |-> Some([avg_rating |-> Get(stats.val).avg_rating,
                                   correlation |-> Get(stats.val).imdb_correlation,
                                   generosity |-> Get(generous.val),
                                   style |-> Style(Get(generous.val)),
                                   peak_volume_year |-> IdxMaxCount(Get(ys)),
                                   peak_quality_year |-> IdxMaxAvgRating(Get(ys))])]

----------------------------------------------------------------------------
(* create_visualizations *)

\* top_genres = ['Drama', 'Action', 'Sci-Fi', 'Comedy', 'Thriller']
WatchGenres == << <<"D", "r", "a", "m", "a">>, <<"A", "c", "t", "i", "o", "n">>,
                 <<"S", "c", "i", "-", "F", "i">>, <<"C", "o", "m", "e", "d", "y">>,
                 <<"T", "h", "r", "i", "l", "l", "e", "r">> >>

\* DataFrame.nlargest(10, 'Avg_Rating'): by mean descending, equal means keep
\* their order
RECURSIVE SortByAvgDesc(_)
SortByAvgDesc(rows) ==
    IF Len(rows) = 0 THEN <<>>
    ELSE LET i == CHOOSE k \in 1..Len(rows) :
                      /\ \A j \in 1..Len(rows) : ~FracLess(rows[k].Avg_Rating, rows[j].Avg_Rating)
                      /\ \A j \in 1..(k - 1) : FracLess(rows[j].Avg_Rating, rows[k].Avg_Rating)
         IN <<rows[i]>> \o
            SortByAvgDesc(SubSeq(rows, 1, i - 1) \o SubSeq(rows, i + 1, Len(rows)))

NLargest(n, rows) ==
    LET sorted == SortByAvgDesc(rows)
    IN SubSeq(sorted, 1, IF Len(sorted) < n THEN Len(sorted) ELSE n)

RECURSIVE CumSum(_)
CumSum(xs) ==
    IF Len(xs) = 0 THEN <<>>
    ELSE LET before == CumSum(SubSeq(xs, 1, Len(xs) - 1))
         IN Append(before, xs[Len(xs)] + (IF Len(before) = 0 THEN 0 ELSE before[Len(before)]))

\* the share of one year's rows whose genres cell contains the genre
GenreShare(d, y, genre) ==
    LET year_data == YearRows(d, y)
    IN GuardedPercentage(Len(SelectSeq(year_data, LAMBDA r : StrContains(r[cGenres], genre))),
                         Len(year_data))

\* the share of one year's rows rated 8 or more
Generosity(d, y) ==
    LET year_data == YearRows(d, y)
    IN GuardedPercentage(Len(SelectSeq(year_data, LAMBDA r : r[cYourRating] >= 8)),
                         Len(year_data))

\* create_visualizations: the data of the nine panels, saved as one image
CreateVisualizations(d, ys, da, save_path) ==
    IF IsNone(ys) THEN Raise("AttributeError")
    ELSE IF ~HasCol(d, cYourRating) \/ ~HasCol(d, cIMDbRating) \/ ~HasCol(d, cGenres)
    THEN Raise("KeyError")
    \* a Genres column with no text at all is a float column: it has no .str
    ELSE IF Len(d.rows) > 0 /\ \A i \in 1..Len(d.rows) : Len(d.rows[i][cGenres]) = 0
    THEN Raise("AttributeError")
    ELSE IF ~HasCol(d, cTitleType) THEN Raise("KeyError")
    ELSE LET years == RatingYears(d)
             rollup == Get(ys)
         IN Return(
            [path |-> save_path,
             volume |-> [k \in 1..Len(rollup) |-> rollup[k].Count],
             quality |-> [k \in 1..Len(rollup) |-> rollup[k].Avg_Your_Rating],
             content_age |-> [k \in 1..Len(rollup) |-> rollup[k].Avg_Content_Age],
             rating_dist |-> RatingDist(d),
             correlation |-> Corr(ColVals(d, cYourRating), ColVals(d, cIMDbRating)),
             top_directors |-> IF IsNone(da) \/ Len(Get(da)) = 0 THEN <<>>
                               ELSE NLargest(10, Get(da)),
             genre_by_year |-> [g \in 1..Len(WatchGenres) |->
                                  [k \in 1..Len(years) |-> GenreShare(d, years[k], WatchGenres[g])]],
             cumulative |-> CumSum([k \in 1..Len(rollup) |-> rollup[k].Count]),
             generosity_by_year |-> [k \in 1..Len(years) |-> Generosity(d, years[k])],
             content_types |-> {[type |-> t, count |-> TypeCount(d, t)] :
                                  t \in {d.rows[i][cTitleType] : i \in 1..Len(d.rows)}}])

----------------------------------------------------------------------------
(* run_complete_analysis: the order of the stages *)

\* a variant that summarizes before the yearly rollup exists
PipelineInsightsEarly == <<"load_data", "basic_statistics", "generate_insights",
                           "yearly_evolution", "analyze_directors", "analyze_genres",
                           "rating_patterns", "content_age_analysis",
                           "create_visualizations", "return">>

\* the calls of run_complete_analysis, in program order, then its return
Pipeline == <<"load_data", "basic_statistics", "yearly_evolution",
              "analyze_directors", "analyze_genres", "rating_patterns",
              "content_age_analysis", "generate_insights",
              "create_visualizations", "return">>

\* the six aggregation stages
Aggregations == {"basic_statistics", "yearly_evolution", "analyze_directors",
                 "analyze_genres", "rating_patterns", "content_age_analysis"}

StageIndex(stage) == CHOOSE i \in 1..Len(Pipeline) : Pipeline[i] = stage

After(stage) ==
    IF StageIndex(stage) = Len(Pipeline) THEN "done"
    ELSE Pipeline[StageIndex(stage) + 1]

\* a stage ends: an exception leaves run_complete_analysis at once (nothing
\* catches it), otherwise the next call starts
Advance(stage, err) ==
    /\ error' = err
    /\ pc' = IF err = "none" THEN After(stage) ELSE "aborted"
    /\ executed' = IF err = "none" THEN Append(executed, stage) ELSE executed

\* the stage that raised, in an aborted run
FailedStage == Pipeline[Len(executed) + 1]

----------------------------------------------------------------------------
(* The stages as steps of one run *)

load_data ==
    /\ pc = "load_data"
    /\ LET r == LoadData(csv)
       IN /\ df' = IF r.set THEN Some(r.df) ELSE df
          /\ Advance("load_data", r.err)
    /\ UNCHANGED <<csv, yearly_stats, director_analysis, basic_stats, yearly_data,
                   director_data, genre_data, rating_patterns_local, age_data,
                   insights, alignment, image, result>>

basic_statistics ==
    /\ pc = "basic_statistics"
    /\ LET r == IF IsNone(df) THEN Raise("TypeError") ELSE BasicStatistics(Get(df))
       IN /\ basic_stats' = r.val
          /\ Advance("basic_statistics", r.err)
    /\ UNCHANGED <<csv, df, yearly_stats, director_analysis, yearly_data,
                   director_data, genre_data, rating_patterns_local, age_data,
                   insights, alignment, image, result>>

yearly_evolution ==
    /\ pc = "yearly_evolution"
    /\ LET r == IF IsNone(df) THEN Raise("AttributeError") ELSE YearlyEvolution(Get(df))
       IN /\ yearly_stats' = IF r.err = "none" THEN r.val ELSE yearly_stats
          /\ yearly_data' = r.val
          /\ Advance("yearly_evolution", r.err)
    /\ UNCHANGED <<csv, df, director_analysis, basic_stats, director_data,
                   genre_data, rating_patterns_local, age_data, insights,
                   alignment, image, result>>

analyze_directors ==
    /\ pc = "analyze_directors"
    /\ LET r == IF IsNone(df)
                THEN [err |-> "TypeError", set |-> FALSE, analysis |-> <<>>, val |-> None]
                ELSE AnalyzeDirectors(Get(df))
       IN /\ director_analysis' = IF r.set THEN Some(r.analysis) ELSE director_analysis
          /\ director_data' = r.val
          /\ Advance("analyze_directors", r.err)
    /\ UNCHANGED <<csv, df, yearly_stats, basic_stats, yearly_data, genre_data,
                   rating_patterns_local, age_data, insights, alignment, image,
                   result>>

analyze_genres ==
    /\ pc = "analyze_genres"
    /\ LET r == IF IsNone(df) THEN Raise("TypeError") ELSE AnalyzeGenres(Get(df))
       IN /\ genre_data' = r.val
          /\ Advance("analyze_genres", r.err)
    /\ UNCHANGED <<csv, df, yearly_stats, director_analysis, basic_stats,
                   yearly_data, director_data, rating_patterns_local, age_data,
                   insights, alignment, image, result>>

rating_patterns ==
    /\ pc = "rating_patterns"
    /\ LET r == IF IsNone(df) THEN Raise("TypeError") ELSE RatingPatterns(Get(df))
       IN /\ rating_patterns_local' = r.val
          /\ Advance("rating_patterns", r.err)
    /\ UNCHANGED <<csv, df, yearly_stats, director_analysis, basic_stats,
                   yearly_data, director_data, genre_data, age_data, insights,
                   alignment, image, result>>

content_age_analysis ==
    /\ pc = "content_age_analysis"
    /\ LET r == IF IsNone(df) THEN [err |-> "TypeError", df |-> <<>>, val |-> None]
                ELSE ContentAgeAnalysis(Get(df))
       IN /\ df' = IF IsNone(df) THEN df ELSE Some(r.df)
          /\ age_data' = r.val
          /\ Advance("content_age_analysis", r.err)
    /\ UNCHANGED <<csv, yearly_stats, director_analysis, basic_stats, yearly_data,
                   director_data, genre_data, rating_patterns_local, insights,
                   alignment, image, result>>

generate_insights ==
    /\ pc = "generate_insights"
    /\ LET r == IF IsNone(df) THEN [err |-> "TypeError", label |-> None, val |-> None]
                ELSE GenerateInsights(Get(df), yearly_stats)
       IN /\ insights' = r.val
          /\ alignment' = r.label
          /\ Advance("generate_insights", r.err)
    /\ UNCHANGED <<csv, df, yearly_stats, director_analysis, basic_stats,
                   yearly_data, director_data, genre_data, rating_patterns_local,
                   age_data, image, result>>

create_visualizations ==
    /\ pc = "create_visualizations"
    /\ LET r == IF IsNone(yearly_stats) THEN Raise("AttributeError")
                ELSE IF IsNone(df) THEN Raise("TypeError")
                ELSE CreateVisualizations(Get(df), yearly_stats, director_analysis,
                                          csv.visualization_path)
       IN /\ image' = r.val
          /\ Advance("create_visualizations", r.err)
    /\ UNCHANGED <<csv, df, yearly_stats, director_analysis, basic_stats,
                   yearly_data, director_data, genre_data, rating_patterns_local,
                   age_data, insights, alignment, result>>

\* the dictionary run_complete_analysis returns: a key is in the record's
\* domain exactly when the dictionary has it
Bundle ==
    [basic_stats |-> Get(basic_stats),
     yearly_data |-> Get(yearly_data),
     director_data |-> Get(director_data),
     genre_data |-> Get(genre_data),
     insights |-> Get(insights)]

run_complete_analysis ==
    /\ pc = "return"
    /\ result' = Some(Bundle)
    /\ Advance("return", "none")
    /\ UNCHANGED <<csv, df, yearly_stats, director_analysis, basic_stats,
                   yearly_data, director_data, genre_data, rating_patterns_local,
                   age_data, insights, alignment, image>>

Next ==
    \/ load_data
    \/ basic_statistics
    \/ yearly_evolution
    \/ analyze_directors
    \/ analyze_genres
    \/ rating_patterns
    \/ content_age_analysis
    \/ generate_insights
    \/ create_visualizations
    \/ run_complete_analysis

----------------------------------------------------------------------------
(* The inputs: the CSV export the analyzer is pointed at *)

Date(y, m, d) == [valid |-> TRUE, ymd |-> <<y, m, d>>]
\* text that spells no date
NotADate == [valid |-> FALSE, ymd |-> <<0, 0, 0>>]

Row(type, rating, imdb, year, rated, released, genres, directors) ==
    [c \in Columns |->
        IF c = cTitleType THEN type
        ELSE IF c = cYourRating THEN rating
        ELSE IF c = cIMDbRating THEN imdb
        ELSE IF c = cYear THEN year
        ELSE IF c = cDateRated THEN rated
        ELSE IF c = cReleaseDate THEN released
        ELSE IF c = cGenres THEN genres
        ELSE directors]

\* "a, b, c": the way the export writes a list
RECURSIVE Listed(_)
Listed(tokens) ==
    IF Len(tokens) = 0 THEN <<>>
    ELSE IF Len(tokens) = 1 THEN tokens[1]
    ELSE tokens[1] \o <<Comma, Space>> \o Listed(Tail(tokens))

File(rows) ==
    [exists |-> TRUE, columns |-> Columns, rows |-> rows,
     visualization_path |-> "imdb_analysis_complete.png"]

X == <<"x">>
XY == <<"x", "y">>
Drama == WatchGenres[1]
Action == WatchGenres[2]
\* one director credited five times in one cell
FiveX == Listed(Rep(X, MinWorks))

\* TopN more directors, all in one cell
Letters == <<"A", "B", "C", "D", "E", "F", "G", "H", "I", "J", "K", "L", "M",
             "N", "O", "P", "Q", "R", "S", "T">>
Crowd == [i \in 1..TopN |-> <<Letters[i]>>]
CrowdCell == Listed(Crowd)

(* Small tables: every table of up to MaxRows rows over a few row kinds that
   differ in title type, in having a platform rating, a release year, genres
   and directors *)
SmallRows ==
    { Row("Movie", 8, Some(75), Some(NowYear - 3), Date(2020, 3, 1), Date(2017, 5, 1),
          Listed(<<Drama, Action>>), FiveX),
      Row("TV Series", 6, None, None, Date(2021, 7, 9), NotADate, <<>>, <<>>),
      Row("TV Episode", 9, Some(90), Some(NowYear - 20), Date(2021, 1, 2), Date(2006, 1, 1),
          Listed(<<Drama>>), FiveX),
      Row("Video", 5, Some(60), Some(NowYear - 40), Date(2020, 12, 31), NotADate,
          Listed(<<Action>>), <<>>),
      Row("Movie", 7, None, Some(NowYear), Date(2022, 2, 2), Date(2026, 1, 1),
          <<>>, FiveX),
      Row("Movie", 8, Some(60), Some(NowYear - 60), Date(2020, 6, 6), NotADate,
          Listed(<<Drama>>), Listed(<<X, XY>>)) }

RECURSIVE Tables(_, _)
Tables(rows, n) ==
    IF n = 0 THEN {<<>>}
    ELSE LET shorter == Tables(rows, n - 1)
         IN shorter \cup {Append(t, r) : t \in {u \in shorter : Len(u) = n - 1}, r \in rows}

SmallInputs == {File(t) : t \in Tables(SmallRows, MaxRows)}

(* Director tables: a block of rows crediting the crowd, a block crediting x,
   and one more row that credits a longer name holding x, or leaves empty
   tokens between its commas *)
CrowdRow == Row("Movie", 6, Some(70), Some(2000), Date(2019, 1, 1), NotADate,
                <<>>, CrowdCell)
XRow == Row("Movie", 8, Some(80), Some(2010), Date(2020, 5, 5), NotADate,
            Listed(<<Drama, Action>>), X)
ExtraRows ==
    { <<>>,
      <<Row("Movie", 2, Some(40), Some(2015), Date(2023, 9, 9), NotADate, <<>>, XY)>>,
      <<Row("Movie", 3, Some(50), Some(2015), Date(2018, 9, 9), NotADate, <<>>,
            <<"x", Comma, Space, Comma, "x">>)>>,
      <<Row("Movie", 4, Some(50), Some(2015), Date(2018, 9, 9), NotADate, <<>>,
            <<Comma, Comma, Comma, Comma, Comma>>)>> }

\* the most copies of the crowd row and of the x row
MaxCount == 6

DirectorInputs ==
    {File(IF xFirst THEN e1 \o Rep(XRow, kx) \o Rep(CrowdRow, kc) \o e2
          ELSE e1 \o Rep(CrowdRow, kc) \o Rep(XRow, kx) \o e2) :
        kc \in 0..MaxCount, kx \in 0..MaxCount, xFirst \in BOOLEAN,
        e1 \in ExtraRows, e2 \in {<<>>}}
    \cup
    {File(IF xFirst THEN Rep(XRow, kx) \o Rep(CrowdRow, kc) \o e2
          ELSE Rep(CrowdRow, kc) \o Rep(XRow, kx) \o e2) :
        kc \in 0..MaxCount, kx \in 0..MaxCount, xFirst \in BOOLEAN,
        e2 \in ExtraRows}

(* Age tables: one row per release year around every edge of the age bins *)
AgeOffsets == {-1, 0, 1, 5, 6, 15, 16, 30, 31, 50, 51, 100, 101}

AgeRow(year) == Row("Movie", 8, Some(75), year, Date(2020, 3, 1), NotADate,
                    Listed(<<Drama>>), FiveX)

AgeInputs ==
    {File(<<AgeRow(y)>>) : y \in {None} \cup {Some(NowYear - a) : a \in AgeOffsets}}
    \cup {File(<<AgeRow(Some(NowYear - a)), AgeRow(y)>>) :
            a \in {5, 6}, y \in {None, Some(NowYear - 101), Some(NowYear + 1)}}

(* Yearly tables: two rating years, runs of equal rows rated 7 and 8 *)
YearRow(y, rating) == Row("Movie", rating, Some(75), Some(2000), Date(y, 3, 1), NotADate,
                          Listed(<<Drama>>), FiveX)

YearlyInputs ==
    {File(IF swap
          THEN Rep(YearRow(2021, 7), b7) \o Rep(YearRow(2021, 8), b8)
               \o Rep(YearRow(2020, 7), a7) \o Rep(YearRow(2020, 8), a8)
          ELSE Rep(YearRow(2020, 7), a7) \o Rep(YearRow(2020, 8), a8)
               \o Rep(YearRow(2021, 7), b7) \o Rep(YearRow(2021, 8), b8)) :
        a7 \in 0..(MaxRep + 1), b7 \in 0..MaxRep, a8 \in 0..1, b8 \in 0..1,
        swap \in BOOLEAN}

(* Defective inputs: no file, a column missing, a rating date that is no date *)
GoodRows == <<AgeRow(Some(2010)), YearRow(2021, 7)>>

DefectiveInputs ==
    {[File(GoodRows) EXCEPT !.exists = FALSE]}
    \cup {[File(GoodRows) EXCEPT !.columns = Columns \ {c}] : c \in Columns}
    \cup {File(<<AgeRow(Some(2010)),
                 [YearRow(2021, 7) EXCEPT ![cDateRated] = NotADate]>>)}

Inputs == SmallInputs \cup DirectorInputs \cup AgeInputs \cup YearlyInputs
          \cup DefectiveInputs

----------------------------------------------------------------------------
(* The run *)

Init ==
    /\ csv \in Inputs
    /\ pc = Pipeline[1]
    /\ error = "none"
    /\ executed = <<>>
    /\ df = None
    /\ yearly_stats = None
    /\ director_analysis = None
    /\ basic_stats = None
    /\ yearly_data = None
    /\ director_data = None
    /\ genre_data = None
    /\ rating_patterns_local = None
    /\ age_data = None
    /\ insights = None
    /\ alignment = None
    /\ image = None
    /\ result = None

Spec == Init /\ [][Next]_vars

----------------------------------------------------------------------------
(* Properties *)

\* what the input says, read off the file itself
InputRows == csv.rows
RowIndices == 1..Len(InputRows)
Loaded == ~IsNone(df) /\ "load_data" \in Range(executed)

(* ---- C1 ---- *)

ThreeTypeSum ==
    Get(basic_stats).movies + Get(basic_stats).tv_series + Get(basic_stats).tv_episodes

\* C1 as stated: whenever basic_statistics has returned, total_entries is the
\* number of records and the three title-type counts sum to total_entries,
\* whatever title types the records carry.
C1_CountsSumToTotal ==
    ~IsNone(basic_stats) =>
        /\ Get(basic_stats).total_entries = Len(InputRows)
        /\ ThreeTypeSum = Get(basic_stats).total_entries

\* C1 amended: whenever basic_statistics has returned, total_entries is the
\* number of records, and the three title-type counts sum to the number of
\* records whose title type is Movie, TV Series or TV Episode; records of any
\* other title type are in total_entries and in none of the three counts.
C1_CountsSumToCountedTypes ==
    ~IsNone(basic_stats) =>
        /\ Get(basic_stats).total_entries = Len(InputRows)
        /\ ThreeTypeSum =
              Cardinality({i \in RowIndices :
                              InputRows[i][cTitleType] \in Range(CountedTypes)})
        /\ Get(basic_stats).total_entries - ThreeTypeSum =
              Cardinality({i \in RowIndices :
                              InputRows[i][cTitleType] \notin Range(CountedTypes)})

\* basic_statistics has returned on a table that mixes a counted title type
\* with another one
C1_Witness ==
    /\ ~IsNone(basic_stats)
    /\ \E i, j \in RowIndices :
          /\ InputRows[i][cTitleType] = "Movie"
          /\ InputRows[j][cTitleType] = "Video"

(* ---- C2 ---- *)

DirectorTokens == TokenList(Get(df), cDirectors)
\* how often each token occurs
Occurrences(toks) ==
    [t \in Range(toks) |-> Cardinality({i \in 1..Len(toks) : toks[i] = t})]
\* where each token occurs first
FirstSeen(toks) ==
    [t \in Range(toks) |->
        CHOOSE i \in 1..Len(toks) : toks[i] = t /\ \A j \in 1..(i - 1) : toks[j] # t]
\* the place of each token when tokens are ranked by count, most frequent
\* first, equal counts in order of first appearance
Rank(toks) ==
    LET occ == Occurrences(toks)
        first == FirstSeen(toks)
    IN [t \in Range(toks) |->
          1 + Cardinality({u \in Range(toks) :
                              \/ occ[u] > occ[t]
                              \/ occ[u] = occ[t] /\ first[u] < first[t]})]
Detailed == {Get(director_analysis)[i].Director : i \in 1..Len(Get(director_analysis))}

\* C2: once analyze_directors has filled the detailed table, a non-empty
\* director token is in it if and only if it ranks among the 15 most frequent
\* tokens and is counted at least 5 times; the entry carries that count.
C2_DetailedIffTop15AndFive ==
    ~IsNone(director_analysis) =>
        LET toks == DirectorTokens
            occ == Occurrences(toks)
            rank == Rank(toks)
            detailed == Detailed
        IN /\ detailed \subseteq Range(toks)
           /\ \A t \in Range(toks) :
                 Len(t) > 0 =>
                     (t \in detailed <=> (rank[t] <= TopN /\ occ[t] >= MinWorks))
           /\ \A i \in 1..Len(Get(director_analysis)) :
                 Get(director_analysis)[i].Count = occ[Get(director_analysis)[i].Director]

\* x is counted exactly 5 times and is in the table, while a token counted 4
\* times ranks in the top 15 and is not
C2_Witness ==
    /\ ~IsNone(director_analysis)
    /\ LET toks == DirectorTokens
           occ == Occurrences(toks)
           rank == Rank(toks)
       IN /\ X \in Range(toks)
          /\ occ[X] = MinWorks
          /\ X \in Detailed
          /\ \E u \in Range(toks) :
                /\ Len(u) > 0
                /\ occ[u] = MinWorks - 1
                /\ rank[u] <= TopN
                /\ u \notin Detailed

\* a token counted 5 times or more stays out of the table because 15 tokens
\* rank before it
C2_CrowdedOut ==
    /\ ~IsNone(director_analysis)
    /\ LET toks == DirectorTokens
           occ == Occurrences(toks)
           rank == Rank(toks)
       IN \E u \in Range(toks) :
             Len(u) > 0 /\ occ[u] >= MinWorks /\ rank[u] > TopN /\ u \notin Detailed

(* ---- C3 ---- *)

\* the records whose comma-split, trimmed token list holds the token
ExactWorks(t) ==
    SelectSeq(Get(df).rows,
              LAMBDA r : \E k \in 1..Len(SplitStrip(r[cDirectors])) :
                            SplitStrip(r[cDirectors])[k] = t)

\* C3 as stated: every entry of the detailed director table has its mean,
\* standard deviation and latest rating date computed over exactly the
\* records whose token list holds the director (exact-token matching).
C3_StatsOverExactTokenMatches ==
    ~IsNone(director_analysis) =>
        \A i \in 1..Len(Get(director_analysis)) :
            LET e == Get(director_analysis)[i]
                works == ExactWorks(e.Director)
                ratings == [k \in 1..Len(works) |-> works[k][cYourRating]]
                latest == MaxDate([k \in 1..Len(works) |-> works[k][cDateRated]])
            IN /\ FracEq(e.Avg_Rating, Mean(ratings))
               /\ FracEq(e.Std_Rating, Variance(ratings))
               /\ e.Latest_Work = Some(StrfTime(Get(latest)))

(* ---- C4 ---- *)

AgeOf(i) == Get(df).rows[i][cContentAge]
AgeRows == 1..Len(Get(df).rows)

\* C4 as stated: content_age_analysis puts every record with a defined
\* content age in exactly one of the five buckets, so the bucket counts sum to
\* the number of such records; age 5 is in the 0-5 bucket, age 6 in the 6-15
\* bucket; a record with no content age is in no bucket.
C4_EveryDefinedAgeInOneBucket ==
    ~IsNone(age_data) =>
        /\ SumSeq([k \in 1..Len(Get(age_data)) |-> Get(age_data)[k].count]) =
              Cardinality({i \in AgeRows : ~IsNone(AgeOf(i))})
        /\ \A i \in AgeRows :
              /\ ~IsNone(AgeOf(i)) => ~IsNone(Get(df).rows[i][cAgeGroup])
              /\ AgeOf(i) = Some(5) => Get(df).rows[i][cAgeGroup] = Some(AgeLabels[1])
              /\ AgeOf(i) = Some(6) => Get(df).rows[i][cAgeGroup] = Some(AgeLabels[2])
              /\ IsNone(AgeOf(i)) => IsNone(Get(df).rows[i][cAgeGroup])

(* ---- C5 ---- *)

\* the parts of the Result Bundle, each under the name of the local of
\* run_complete_analysis that holds it
BundleParts == {"basic_stats", "yearly_data", "director_data", "genre_data",
                "rating_patterns", "age_data", "insights"}

\* C5 as stated: whenever run_complete_analysis returns, the bundle holds the
\* aggregate statistics, the yearly rollups, the director and genre tables,
\* the rating histogram, the age-bucket rollup and the insight summary.
C5_ReturnedBundleIsFull ==
    ~IsNone(result) => BundleParts \subseteq DOMAIN Get(result)

(* ---- C6 ---- *)

FileMissing == ~csv.exists
MissingColumns == Columns \ csv.columns
RatingDateBad == \E i \in RowIndices : ~InputRows[i][cDateRated].valid
InputError == FileMissing \/ MissingColumns # {} \/ RatingDateBad

\* C6 as stated: with any input error (missing file, one of the eight
\* required columns missing, an unparseable rating date) the run aborts
\* before any aggregation stage has executed.
C6_InputErrorAbortsBeforeAggregation ==
    InputError => Range(executed) \cap Aggregations = {}

\* the stage of the run that reads a column first
FirstReader(c) ==
    IF c \in {cDateRated, cReleaseDate, cYear} THEN "load_data"
    ELSE IF c \in {cTitleType, cYourRating, cIMDbRating} THEN "basic_statistics"
    ELSE IF c = cDirectors THEN "analyze_directors"
    ELSE "analyze_genres"

\* C6 amended: every input error aborts the run, which then returns no bundle
\* and saves no image. A missing file, an unparseable rating date and a
\* missing rating-date, release-date or release-year column abort it in
\* load_data, before any aggregation stage has executed; a missing title-type,
\* user-rating, platform-rating, directors or genres column aborts it no later
\* than the first stage that reads the column, after the stages before that
\* one may have executed.
C6_InputErrorAborts ==
    InputError =>
        /\ pc # "done" /\ IsNone(result) /\ IsNone(image)
        /\ (FileMissing \/ RatingDateBad) => executed = <<>>
        /\ \A c \in MissingColumns : FirstReader(c) \notin Range(executed)
        /\ \A c \in MissingColumns \cap {cDateRated, cReleaseDate, cYear} :
              Range(executed) \cap Aggregations = {}

\* a run whose table lacks the directors column has aborted in
\* analyze_directors, after basic_statistics and yearly_evolution executed
C6_Witness ==
    /\ MissingColumns = {cDirectors}
    /\ pc = "aborted"
    /\ error = "KeyError"
    /\ executed = <<"load_data", "basic_statistics", "yearly_evolution">>

(* ---- C7 ---- *)

\* C7 as stated: no aggregation stage fails on a loaded table with zero
\* records; its shares come out as 0%.
C7_NoStageFailsOnEmptyTable ==
    (Loaded /\ Len(InputRows) = 0) =>
        ~(pc = "aborted" /\ FailedStage \in Aggregations \cup {"generate_insights"})

(* ---- C8 ---- *)

PlatformRated == {i \in RowIndices : ~IsNone(InputRows[i][cIMDbRating])}

\* C8 as stated: on a loaded table where fewer than two records have a
\* platform rating, basic_statistics reports an absent (NaN) correlation and
\* generate_insights labels the alignment from it without raising.
C8_AbsentCorrelationHandled ==
    (Loaded /\ MissingColumns = {} /\ Cardinality(PlatformRated) < 2) =>
        /\ "basic_statistics" \in Range(executed) =>
              Get(basic_stats).imdb_correlation.nan
        /\ "generate_insights" \in Range(executed) => alignment = Some("Weak")
        /\ pc = "aborted" => FailedStage \notin {"basic_statistics", "generate_insights"}

\* the same on tables with at least one record
C8_AbsentCorrelationHandledNonEmpty ==
    Len(InputRows) > 0 => C8_AbsentCorrelationHandled

\* generate_insights has labelled an absent correlation
C8_Reached ==
    /\ Len(InputRows) > 0
    /\ Cardinality(PlatformRated) < 2
    /\ "generate_insights" \in Range(executed)
    /\ Get(insights).correlation.nan

(* ---- C9 ---- *)

RatingYearOf(i) == InputRows[i][cDateRated].ymd[1]
InputYears == {RatingYearOf(i) : i \in RowIndices}
YearCount(y) == Cardinality({i \in RowIndices : RatingYearOf(i) = y})
RECURSIVE SumOver(_, _)
SumOver(I, f) ==
    IF I = {} THEN 0
    ELSE LET i == CHOOSE k \in I : TRUE IN f[i] + SumOver(I \ {i}, f)
YearSum(y) ==
    SumOver({i \in RowIndices : RatingYearOf(i) = y},
            [i \in RowIndices |-> InputRows[i][cYourRating]])

\* the earliest year with the most records
EarliestBusiestYear ==
    CHOOSE y \in InputYears :
        /\ \A z \in InputYears : YearCount(z) <= YearCount(y)
        /\ \A z \in InputYears : YearCount(z) = YearCount(y) => y <= z

\* the earliest year with the highest mean user rating
EarliestBestYear ==
    CHOOSE y \in InputYears :
        /\ \A z \in InputYears : YearSum(z) * YearCount(y) <= YearSum(y) * YearCount(z)
        /\ \A z \in InputYears :
              YearSum(z) * YearCount(y) = YearSum(y) * YearCount(z) => y <= z

\* C9 as stated: generate_insights reports the rating year with the most
\* records as peak-volume year and the rating year with the highest mean user
\* rating as peak-quality year, the earliest of them when several tie.
C9_PeakYears ==
    ~IsNone(insights) =>
        /\ Get(insights).peak_volume_year = EarliestBusiestYear
        /\ Get(insights).peak_quality_year = EarliestBestYear

\* the peak-volume half of C9 alone
C9_PeakVolumeYear ==
    ~IsNone(insights) => Get(insights).peak_volume_year = EarliestBusiestYear

(* ---- C10 ---- *)

\* loader 1, aggregations 2, insight summarizer 3, renderer 4, return 5
StageRank(stage) ==
    IF stage = "load_data" THEN 1
    ELSE IF stage \in Aggregations THEN 2
    ELSE IF stage = "generate_insights" THEN 3
    ELSE IF stage = "create_visualizations" THEN 4
    ELSE 5

ReadsDf == Aggregations \cup {"generate_insights", "create_visualizations"}
ReadsYearlyStats == {"generate_insights", "create_visualizations"}
ReadsDirectorAnalysis == {"create_visualizations"}

\* C10: in every run the stages execute in the order loader, aggregations,
\* insight summarizer, renderer, and the stage about to run finds every
\* instance cache it reads already set: df for the aggregations, the insight
\* summarizer and the renderer, yearly_stats for the insight summarizer and
\* the renderer, director_analysis for the renderer.
C10_StagesInOrderCachesSet ==
    /\ \A i, j \in 1..Len(executed) :
          i < j => StageRank(executed[i]) <= StageRank(executed[j])
    /\ pc \notin {"done", "aborted"} =>
          \A i \in 1..Len(executed) : StageRank(executed[i]) <= StageRank(pc)
    /\ pc \in ReadsDf => ~IsNone(df)
    /\ pc \in ReadsYearlyStats => ~IsNone(yearly_stats)
    /\ pc \in ReadsDirectorAnalysis => ~IsNone(director_analysis)

\* the renderer is about to run and the three caches are set
C10_Witness ==
    /\ pc = "create_visualizations"
    /\ ~IsNone(df) /\ ~IsNone(yearly_stats) /\ ~IsNone(director_analysis)
    /\ executed = SubSeq(Pipeline, 1, 8)

====
